---- MODULE Spec2Model ----
(***************************************************************************)
(* Model of src/src/pathops.py, the Inkscape "PathOps" extension.          *)
(*                                                                         *)
(* The document is the lxml element tree below the root <svg>, kept as the *)
(* sequence of its elements in document (depth-first) order.  Each element *)
(* carries its id attribute, its tag, the id of its parent, whether it has *)
(* a sodipodi:type attribute, its style attribute, its stroke attribute    *)
(* and, for a tagref, the id its xlink:href names.  Ids are unique, as in  *)
(* every document Inkscape hands to an extension.                          *)
(*                                                                         *)
(* One run of effect() is followed step by step: has_tagrefs, then         *)
(* get_sorted_ids, then the three parts of loop_pathops (prepare, one      *)
(* step per chunk, finish).  The external inkscape process is the          *)
(* environment: its exit status and what it does to the working file are   *)
(* chosen nondeterministically.                                            *)
(***************************************************************************)
EXTENDS Integers, Sequences, FiniteSets, TLC

\* ----- bounds of the model
MaxSel == 2
MaxOpsOpt == 2

\* ----- program constants
DefaultMaxOps == 500

\* ----- values
ROOT == 0
NoId == -1
None == <<>>
Some(x) == <<x>>

Range(s) == {s[i] : i \in 1..Len(s)}

\* ----- styles: the style attribute as simplestyle sees it
\* form: "absent" (no attribute), "raw" (text not in formatStyle's form),
\* "fmt" (text as formatStyle writes it); "" stands for a key not in the dict
Style(form, fill, stroke, width) ==
    [form |-> form, fill |-> fill, stroke |-> stroke, width |-> width]

StyleAbsent == Style("absent", "", "", "")

Node(id, tag, parent, stype, style, stroke, href) ==
    [id |-> id, tag |-> tag, parent |-> parent, stype |-> stype,
     style |-> style, stroke |-> stroke, href |-> href]

Elem(id, tag, parent) == Node(id, tag, parent, FALSE, StyleAbsent, "", NoId)

SVG_SHAPES == {"rect", "circle", "ellipse", "line", "polyline", "polygon"}

\* ----- SVG element helper functions
is_group(node) == node.tag = "g"

is_path(node) == node.tag = "path"

is_basic_shape(node) == node.tag \in SVG_SHAPES

is_custom_shape(node) == node.stype

is_shape(node) == is_basic_shape(node) \/ is_custom_shape(node)

is_text(node) == node.tag = "text"

does_pathops(node) == is_path(node) \/ is_shape(node) \/ is_text(node)

\* ----- tree helpers (lxml)
Ids(doc) == {doc[i].id : i \in 1..Len(doc)} \ {NoId}

\* getElementById: the element with that id, if any
HasElement(doc, id) == id \in Ids(doc)

NodeOf(doc, id) == doc[CHOOSE i \in 1..Len(doc) : doc[i].id = id]

\* iteration over the children of an element, in document order
ChildIds(doc, id) ==
    LET kids == SelectSeq(doc, LAMBDA n : n.parent = id)
    IN  [i \in 1..Len(kids) |-> kids[i].id]

RECURSIVE InSubtree(_, _, _)
InSubtree(doc, n, id) ==
    IF n.id = id THEN TRUE
    ELSE IF n.parent = ROOT \/ ~HasElement(doc, n.parent) THEN FALSE
    ELSE InSubtree(doc, NodeOf(doc, n.parent), id)

\* parent.remove(node): the element goes with everything below it
RemoveElement(doc, id) == SelectSeq(doc, LAMBDA n : ~InSubtree(doc, n, id))

RECURSIVE RemoveElements(_, _)
RemoveElements(doc, ids) ==
    IF ids = {} THEN doc
    ELSE LET id == CHOOSE x \in ids : TRUE
         IN  RemoveElements(RemoveElement(doc, id), ids \ {id})

\* ----- the documents of the model
\* metadata part: no <defs>, an empty <defs>, a selection set in the first
\* <defs>, a selection set nested in another set, a selection set in a
\* second <defs>; h is the id the tagref refers to
TagRef(parent, h) == Node(12, "tagref", parent, FALSE, StyleAbsent, "", h)

\* the ids a tagref refers to: a path of every drawing
TagTargets == {2}

Metas ==
    {<<>>, <<Elem(10, "defs", ROOT)>>}
    \cup {<<Elem(10, "defs", ROOT), Elem(11, "tag", 10), TagRef(11, h)>> :
            h \in TagTargets}
    \cup {<<Elem(10, "defs", ROOT), Elem(11, "tag", 10), Elem(13, "tag", 11),
            TagRef(13, h)>> : h \in TagTargets}
    \cup {<<Elem(10, "defs", ROOT), Elem(14, "defs", ROOT), Elem(11, "tag", 14),
            TagRef(11, h)>> : h \in TagTargets}

\* drawing part: two paths; nested groups; a 3D box (a group with a
\* sodipodi:type attribute) beside an image and a path
Bodies ==
    { << Elem(1, "path", ROOT),
         Node(2, "path", ROOT, FALSE, Style("fmt", "red", "blue", "2px"), "",
              NoId) >>,
      << Elem(1, "g", ROOT),
         Node(2, "path", 1, FALSE, Style("raw", "red", "", ""), "", NoId),
         Elem(3, "g", 1),
         Elem(4, "rect", 3),
         Elem(5, "path", 3),
         Elem(6, "text", ROOT) >>,
      << Node(1, "g", ROOT, TRUE, StyleAbsent, "", NoId),
         Node(2, "path", 1, TRUE, StyleAbsent, "", NoId),
         Elem(3, "image", ROOT),
         Node(4, "path", ROOT, FALSE, Style("fmt", "url", "none", ""), "none",
              NoId) >> }

Documents == {m \o b : m \in Metas, b \in Bodies}

BodyIds(doc) == {id \in Ids(doc) : id < 9}

\* ----- options (OptionParser, __init__)
Verbs == {"SelectionDiff", "SelectionCutPath", ""}

Options ==
    [ink_verb : Verbs, max_ops : -1..MaxOpsOpt, recursive_sel : BOOLEAN,
     keep_top : BOOLEAN, dry_run : BOOLEAN]

\* self.selected: the elements whose ids were passed with --id
Selections(doc) == {S \in SUBSET BodyIds(doc) : Cardinality(S) <= MaxSel}

\* the orders in which a dict's values() may come
Orders(S) == {s \in [1..Cardinality(S) -> S] : Range(s) = S}

\* ----- get_defs, get_tagrefs
HasDefs(doc) == \E i \in 1..Len(doc) : doc[i].tag = "defs"

\* the document after get_defs: a <defs> without id is appended to the root
\* when the document has none
DocAfterGetDefs(doc) ==
    IF HasDefs(doc) THEN doc ELSE Append(doc, Elem(NoId, "defs", ROOT))

\* the element get_defs returns: the first <defs> in document order
get_defs(doc) ==
    LET d == DocAfterGetDefs(doc)
    IN  d[CHOOSE i \in 1..Len(d) :
            /\ d[i].tag = "defs"
            /\ \A j \in 1..(i - 1) : d[j].tag # "defs"]

\* findall("inkscape:tag/inkscape:tagref") from defs: the tagref children of
\* the tag children of defs, as indexes into the document
get_tagrefs(doc, defs) ==
    {i \in 1..Len(doc) :
        /\ doc[i].tag = "tagref"
        /\ \E j \in 1..Len(doc) :
              /\ doc[j].tag = "tag"
              /\ doc[j].id # NoId
              /\ doc[j].id = doc[i].parent
              /\ defs.id # NoId
              /\ doc[j].parent = defs.id}

has_tagrefs(doc) == get_tagrefs(DocAfterGetDefs(doc), get_defs(doc)) # {}

\* update_tagrefs(mode='purge'): the document without the tagrefs found
\* whose href names no element
update_tagrefs(doc) ==
    LET d    == DocAfterGetDefs(doc)
        refs == get_tagrefs(d, get_defs(doc))
        gone == {i \in refs : ~HasElement(d, d[i].href)}
    IN  RemoveElements(d, {d[i].id : i \in gone})

\* ----- update_attrib, check_props
update_attrib(node, prop, val, opts) ==
    IF ~opts.dry_run THEN [node EXCEPT ![prop] = val] ELSE node

\* simplestyle.parseStyle: the dict of the style attribute (empty when the
\* attribute is absent); simplestyle.formatStyle: the text written for a dict
parseStyle(style) ==
    [fill |-> style.fill, stroke |-> style.stroke, width |-> style.width]

formatStyle(sdict) == Style("fmt", sdict.fill, sdict.stroke, sdict.width)

\* the element after check_props
check_props(node, opts) ==
    IF opts.ink_verb # "SelectionCutPath" THEN node
    ELSE LET sdict0 == parseStyle(node.style)
             fill_color == IF sdict0.fill = "none" \/ sdict0.fill = "url"
                           THEN "" ELSE sdict0.fill
             stroke_color == IF fill_color # "" THEN fill_color
                             ELSE "default_stroke"
             sdict1 == IF sdict0.stroke = "" \/ sdict0.stroke = "none"
                       THEN [sdict0 EXCEPT !.stroke = stroke_color]
                       ELSE sdict0
             node1  == IF node.stroke = "none"
                       THEN update_attrib(node, "stroke", stroke_color, opts)
                       ELSE node
             sdict2 == IF sdict1.width = ""
                       THEN [sdict1 EXCEPT !.width = "default_stroke_width"]
                       ELSE sdict1
         IN  update_attrib(node1, "style", formatStyle(sdict2), opts)

\* ----- recurse_selection, get_selected_ids
RECURSIVE recurse_selection(_, _, _, _, _)
RECURSIVE RecurseChildren(_, _, _, _, _)
recurse_selection(doc, node, id_list, level, current) ==
    LET cur  == current + 1
        deep == IF (level = 0 \/ cur <= level) /\ is_group(node)
                THEN RecurseChildren(doc, ChildIds(doc, node.id), id_list,
                                     level, cur)
                ELSE id_list
    IN  IF does_pathops(node) THEN Append(deep, node.id) ELSE deep

RecurseChildren(doc, kids, id_list, level, current) ==
    IF kids = <<>> THEN id_list
    ELSE RecurseChildren(doc, Tail(kids),
             recurse_selection(doc, NodeOf(doc, Head(kids)), id_list, level,
                               current),
             level, current)

Level(opts) == IF opts.recursive_sel THEN 0 ELSE 1

\* the id list get_selected_ids builds, the selection taken in this order
RECURSIVE FlattenSelection(_, _, _, _)
FlattenSelection(doc, order, id_list, opts) ==
    IF order = <<>> THEN id_list
    ELSE FlattenSelection(doc, Tail(order),
             recurse_selection(doc, NodeOf(doc, Head(order)), id_list,
                               Level(opts), 0),
             opts)

\* the document after check_props has run on every listed element
DocAfterCheckProps(doc, id_list, opts) ==
    [i \in 1..Len(doc) |->
        IF doc[i].id \in Range(id_list) THEN check_props(doc[i], opts)
        ELSE doc[i]]

\* ----- list processing helper functions
RECURSIVE RemoveFirst(_, _)
RemoveFirst(alist, x) ==
    IF alist = <<>> THEN <<>>
    ELSE IF Head(alist) = x THEN Tail(alist)
    ELSE <<Head(alist)>> \o RemoveFirst(Tail(alist), x)

RECURSIVE ZIterFrom(_, _, _)
ZIterFrom(doc, i, id_list) ==
    IF i > Len(doc) THEN <<>>
    ELSE IF doc[i].id # NoId /\ doc[i].id \in Range(id_list)
    THEN <<doc[i].id>> \o ZIterFrom(doc, i + 1, RemoveFirst(id_list, doc[i].id))
    ELSE ZIterFrom(doc, i + 1, id_list)

\* a z_iter that yields the ids in the order of the list
z_iter_in_list_order(doc, alist) == alist

z_iter(doc, alist) == ZIterFrom(doc, 1, alist)

Min(a, b) == IF a < b THEN a ELSE b

\* range(0, n, step) of Python, for step # 0
RECURSIVE PyRange(_, _, _)
PyRange(i, n, step) ==
    IF step > 0 /\ i < n THEN <<i>> \o PyRange(i + step, n, step) ELSE <<>>

\* alist[i:j] for 0 <= i <= j
Slice(alist, i, j) == SubSeq(alist, i + 1, Min(j, Len(alist)))

\* a chunks whose slices end one element early
chunks_short_slice(alist, max_len) ==
    LET starts == PyRange(0, Len(alist), max_len)
    IN  [k \in 1..Len(starts) |->
            Slice(alist, starts[k], starts[k] + max_len - 1)]

chunks(alist, max_len) ==
    LET starts == PyRange(0, Len(alist), max_len)
    IN  [k \in 1..Len(starts) |-> Slice(alist, starts[k], starts[k] + max_len)]

\* ----- run_pathops: the command line
Arg(text, id) == [text |-> text, id |-> id]

\* a command line that applies the verb before the other id is selected
RECURSIVE SelectArgsVerbFirst(_, _, _)
SelectArgsVerbFirst(top_path, id_list, ink_verb) ==
    IF id_list = <<>> THEN <<>>
    ELSE << Arg("--select=", top_path),
            Arg("--verb=EditDuplicate", NoId),
            Arg("--verb=" \o ink_verb, NoId),
            Arg("--select=", Head(id_list)),
            Arg("--verb=EditDeselect", NoId) >>
         \o SelectArgsVerbFirst(top_path, Tail(id_list), ink_verb)

RECURSIVE SelectArgs(_, _, _)
SelectArgs(top_path, id_list, ink_verb) ==
    IF id_list = <<>> THEN <<>>
    ELSE << Arg("--select=", top_path),
            Arg("--verb=EditDuplicate", NoId),
            Arg("--select=", Head(id_list)),
            Arg("--verb=" \o ink_verb, NoId),
            Arg("--verb=EditDeselect", NoId) >>
         \o SelectArgs(top_path, Tail(id_list), ink_verb)

cmdlist(svgfile, top_path, id_list, ink_verb) ==
    <<Arg("inkscape", NoId)>>
    \o SelectArgs(top_path, id_list, ink_verb)
    \o << Arg("--verb=FileSave", NoId), Arg("--verb=FileQuit", NoId),
          Arg("-f", NoId), Arg(svgfile, NoId) >>

\* cleanup(tempfile): what is left of the file; os.remove may fail, and the
\* failure is ignored
cleanup(file) == {None, file}

\* ----- loop_pathops: its local variables
EffMaxOps(opts) == IF opts.max_ops # 0 THEN opts.max_ops ELSE DefaultMaxOps

EffVerb(opts) == IF opts.ink_verb # "" THEN opts.ink_verb ELSE "SelectionDiff"

TempName == "-pathops.svg"

VARIABLES document, options, selected, pc, id_list, top_path, other_paths,
          count, tempfile, calls, msgs, debug, reloaded, orig

vars == <<document, options, selected, pc, id_list, top_path, other_paths,
          count, tempfile, calls, msgs, debug, reloaded, orig>>

\* the chunks loop_pathops iterates over
ChunkList == chunks(other_paths[1], EffMaxOps(options))

Init ==
    /\ document \in Documents
    /\ options \in Options
    /\ selected \in Selections(document)
    /\ pc = "effect"
    /\ id_list = <<>>
    /\ top_path = None
    /\ other_paths = None
    /\ count = 0
    /\ tempfile = None
    /\ calls = <<>>
    /\ msgs = <<>>
    /\ debug = <<>>
    /\ reloaded = FALSE
    /\ orig = document

\* effect(): the has_tagrefs test and the selection-set message
HasTagrefs ==
    /\ pc = "effect"
    /\ document' = DocAfterGetDefs(document)
    /\ IF has_tagrefs(document)
       THEN /\ msgs' = Append(msgs, "selection sets")
            /\ pc' = "done"
       ELSE /\ msgs' = msgs
            /\ pc' = "get_sorted_ids"
    /\ UNCHANGED <<options, selected, id_list, top_path, other_paths, count,
                   tempfile, calls, debug, reloaded, orig>>

\* get_sorted_ids() with get_selected_ids(), and effect()'s test of the result
GetSortedIds ==
    /\ pc = "get_sorted_ids"
    /\ \E order \in Orders(selected) :
       \E ids \in {FlattenSelection(document, order, <<>>, options)} :
       \E doc \in {DocAfterCheckProps(document, ids, options)} :
       \E sorted_ids \in {z_iter(doc, ids)} :
          /\ document' = doc
          /\ id_list' = ids
          /\ IF Len(ids) < 2
             THEN /\ msgs' = Append(msgs, "requires at least 2 elements")
                  /\ top_path' = None
                  /\ other_paths' = None
                  /\ pc' = "done"
             ELSE /\ msgs' = msgs
                  /\ top_path' = Some(sorted_ids[Len(sorted_ids)])
                  /\ other_paths' =
                        Some(SubSeq(sorted_ids, 1, Len(sorted_ids) - 1))
                  /\ pc' = "loop_pathops"
    /\ UNCHANGED <<options, selected, count, tempfile, calls, debug, reloaded,
                   orig>>

\* loop_pathops(): init variables, prepare
LoopPrepare ==
    /\ pc = "loop_pathops"
    /\ count' = 0
    /\ id_list' = <<>>
    /\ IF options.dry_run
       THEN /\ debug' = Append(debug, <<Arg("# Top object id", top_path[1])>>)
            /\ tempfile' = tempfile
       ELSE /\ debug' = debug
            /\ tempfile' = Some(document)
    /\ pc' = "chunks"
    /\ UNCHANGED <<document, options, selected, top_path, other_paths, calls,
                   msgs, reloaded, orig>>

\* one turn of the loop over the chunks: run_pathops() and, in it, run()
RunChunk ==
    /\ pc = "chunks"
    /\ count < Len(ChunkList)
    /\ count' = count + 1
    /\ LET chunk == ChunkList[count + 1]
           cmd   == cmdlist(TempName, top_path[1], chunk, EffVerb(options))
       IN  IF options.dry_run
           THEN /\ debug' = Append(debug, cmd)
                /\ UNCHANGED <<tempfile, calls, msgs>>
           ELSE \E returncode \in {0, 1}, consumed \in SUBSET Range(chunk) :
                   /\ calls' = Append(calls, [cmd |-> cmd, rc |-> returncode])
                   /\ IF returncode = 0
                      THEN /\ tempfile' =
                                 Some(RemoveElements(tempfile[1], consumed))
                           /\ msgs' = msgs
                      ELSE /\ consumed = {}
                           /\ tempfile' = tempfile
                           /\ msgs' = Append(msgs, "stderr")
                   /\ debug' = debug
    /\ UNCHANGED <<document, options, selected, pc, id_list, top_path,
                   other_paths, reloaded, orig>>

\* loop_pathops(): finish up
LoopFinish ==
    /\ pc = "chunks"
    /\ count = Len(ChunkList)
    /\ IF options.dry_run
       THEN /\ debug' = Append(debug, <<Arg("# chunks processed", count)>>)
            /\ UNCHANGED <<document, tempfile, reloaded>>
       ELSE /\ debug' = debug
            /\ reloaded' = TRUE
            /\ LET parsed == tempfile[1]
                   kept   == IF ~options.keep_top
                                /\ HasElement(parsed, top_path[1])
                             THEN RemoveElement(parsed, top_path[1])
                             ELSE parsed
               IN  document' = update_tagrefs(kept)
            /\ tempfile' \in cleanup(tempfile)
    /\ pc' = "done"
    /\ UNCHANGED <<options, selected, id_list, top_path, other_paths, count,
                   calls, msgs, orig>>

Next == HasTagrefs \/ GetSortedIds \/ LoopPrepare \/ RunChunk \/ LoopFinish

Spec == Init /\ [][Next]_vars

\* ======================================================================
\* Properties
\* ======================================================================

\* ----- vocabulary of the properties
HasTagref(doc) == \E i \in 1..Len(doc) : doc[i].tag = "tagref"

\* the ids of a set, listed in document order
DocOrder(doc, S) ==
    LET els == SelectSeq(doc, LAMBDA n : n.id \in S)
    IN  [i \in 1..Len(els) |-> els[i].id]

\* the elements the selection flattens to, whatever the order of selection
FlattenedIds ==
    Range(FlattenSelection(orig, CHOOSE o \in Orders(selected) : TRUE, <<>>,
                           options))

RECURSIVE Concat(_)
Concat(ss) == IF ss = <<>> THEN <<>> ELSE Head(ss) \o Concat(Tail(ss))

\* c = ceil(n / m)
IsCeilDiv(c, n, m) ==
    \/ m > 0 /\ (c - 1) * m < n /\ n <= c * m
    \/ m < 0 /\ (c - 1) * m > n /\ n >= c * m

\* cs chunks the list alist with chunk size m
IsChunking(cs, alist, m) ==
    /\ IsCeilDiv(Len(cs), Len(alist), m)
    /\ \A k \in 1..Len(cs) : Len(cs[k]) <= m
    /\ Concat(cs) = alist

Rejected == pc = "done" /\ top_path = None

\* C1: in dry-run mode a run never invokes the external process, never
\* writes the working file and leaves the document as it was
C1_DryRunChangesNothing ==
    options.dry_run =>
        /\ calls = <<>>
        /\ tempfile = None
        /\ document = orig

\* C2: a document with a tagref anywhere is rejected with the selection-set
\* message before the selection is flattened, nothing written, nothing run
C2_TagrefsRejected ==
    (HasTagref(orig) /\ pc # "effect") =>
        /\ pc = "done"
        /\ msgs = <<"selection sets">>
        /\ id_list = <<>>
        /\ top_path = None
        /\ tempfile = None
        /\ calls = <<>>

\* C3: a selection that flattens to fewer than two eligible elements is
\* rejected with the "requires at least 2 elements" message: no top element,
\* no working file, no external process, no reload
C3_FewElementsRejected ==
    (/\ pc \notin {"effect", "get_sorted_ids"}
     /\ ~has_tagrefs(orig)
     /\ Cardinality(FlattenedIds) < 2) =>
        /\ pc = "done"
        /\ msgs = <<"requires at least 2 elements">>
        /\ top_path = None
        /\ tempfile = None
        /\ calls = <<>>
        /\ ~reloaded

\* C4: the flattened id list of an accepted selection holds no group; it
\* holds only eligible elements that are selected themselves or lie in a
\* selected group, at any depth when recursive_sel is set and as direct
\* children when it is not
C4_NoGroupInIdList ==
    (pc = "loop_pathops") =>
        \A id \in Range(id_list) :
            LET n == NodeOf(orig, id)
            IN  /\ ~is_group(n)
                /\ does_pathops(n)
                /\ \/ id \in selected
                   \/ \E g \in selected :
                         /\ is_group(NodeOf(orig, g))
                         /\ g # id
                         /\ IF options.recursive_sel
                            THEN InSubtree(orig, n, g)
                            ELSE n.parent = g

\* C5: for an accepted selection, whatever the order of selection, others
\* followed by top is the flattened ids in document order, top is the last
\* of them and is not among the others
C5_SortedIds ==
    (top_path # None) =>
        LET top    == top_path[1]
            others == other_paths[1]
        IN  \A flat \in {FlattenedIds} :
               /\ others \o <<top>> = DocOrder(orig, flat)
               /\ top \notin Range(others)
               /\ pc = "loop_pathops" => Range(id_list) = flat

C5_Witness ==
    /\ pc = "loop_pathops"
    /\ Len(other_paths[1]) >= 2
    /\ id_list # other_paths[1] \o top_path

\* C6 as stated: for every configured max_ops M the chunks of the N others
\* are ceil(N/M) chunks of at most M ids whose concatenation is the others
C6_ChunkingAnyM ==
    (pc = "chunks") => IsChunking(ChunkList, other_paths[1], options.max_ops)

\* C6 amended: the same for every configured max_ops M >= 1; a max_ops of 0
\* is replaced by 500, and a negative max_ops yields no chunk at all
C6_ChunkingPositiveM ==
    (pc = "chunks") =>
        \A cs \in {ChunkList} :
            IF options.max_ops >= 0
            THEN IsChunking(cs, other_paths[1],
                            IF options.max_ops = 0 THEN DefaultMaxOps
                            ELSE options.max_ops)
            ELSE cs = <<>>

C6_Witness ==
    /\ pc = "chunks"
    /\ options.max_ops = 2
    /\ Len(other_paths[1]) = 3
    /\ count = 2

\* C7: after an external invocation has exited with a nonzero status its
\* error stream has been shown, no later chunk is invoked and the document
\* is not replaced by the working copy
C7_FailureStopsRun ==
    \A k \in 1..Len(calls) :
        calls[k].rc # 0 =>
            /\ "stderr" \in Range(msgs)
            /\ k = Len(calls)
            /\ ~reloaded

\* C8: after a completed non-dry run no tagref of the document names an id
\* the document does not have
C8_NoDanglingTagref ==
    (pc = "done" /\ reloaded) =>
        \A i \in 1..Len(document) :
            document[i].tag = "tagref" =>
                HasElement(document, document[i].href)

\* the ids an invocation operates on, read from its arguments
CallIds(cmd) == [j \in 1..((Len(cmd) - 5) \div 5) |-> cmd[5 * j - 1].id]

\* the arguments of an invocation are, per id, select top / EditDuplicate /
\* select id / verb / EditDeselect, then FileSave, FileQuit, -f, file
WellFormedCall(cmd, top, verb) ==
    LET args == Tail(cmd)
        n    == (Len(args) - 4) \div 5
    IN  /\ Len(args) = 5 * n + 4
        /\ \A j \in 0..(n - 1) :
              /\ args[5 * j + 1] = Arg("--select=", top)
              /\ args[5 * j + 2] = Arg("--verb=EditDuplicate", NoId)
              /\ args[5 * j + 3].text = "--select="
              /\ args[5 * j + 4] = Arg("--verb=" \o verb, NoId)
              /\ args[5 * j + 5] = Arg("--verb=EditDeselect", NoId)
        /\ args[5 * n + 1] = Arg("--verb=FileSave", NoId)
        /\ args[5 * n + 2] = Arg("--verb=FileQuit", NoId)
        /\ args[5 * n + 3] = Arg("-f", NoId)
        /\ args[5 * n + 4] = Arg(TempName, NoId)

\* the ids operated on so far, over all invocations in their order
OperatedIds == Concat([k \in 1..Len(calls) |-> CallIds(calls[k].cmd)])

IsPrefix(s, t) == Len(s) <= Len(t) /\ s = SubSeq(t, 1, Len(s))

\* what C9 says of a run whose invocations carry the verb `verb`
SequentialCalls(verb) ==
    /\ calls # <<>> => top_path # None
    /\ (calls # <<>> /\ pc = "chunks") => (tempfile # None /\ ~reloaded)
    /\ top_path # None =>
          \A cs \in {ChunkList}, ops \in {OperatedIds} :
              /\ \A k \in 1..Len(calls) :
                    /\ WellFormedCall(calls[k].cmd, top_path[1], verb)
                    /\ k <= Len(cs)
                    /\ CallIds(calls[k].cmd) = cs[k]
              /\ IsPrefix(ops, other_paths[1])
              /\ reloaded => (Len(calls) = Len(cs) /\ ops = other_paths[1])

\* C9 as stated: in a non-dry run the invocations are issued one per chunk,
\* in chunk order, between the writing and the reloading of the working
\* copy, each with the argument list built around the configured verb, and
\* over the run every other id is operated on once, in document order
C9_CallsAsConfigured == ~options.dry_run => SequentialCalls(options.ink_verb)

\* C9 amended: the same with the verb being SelectionDiff when the
\* configured verb is empty, and for a max_ops that is not negative; with a
\* negative max_ops no invocation is issued
C9_CallsEffective ==
    ~options.dry_run =>
        IF options.max_ops >= 0
        THEN SequentialCalls(EffVerb(options))
        ELSE calls = <<>>

C9_Witness ==
    /\ pc = "done"
    /\ reloaded
    /\ Len(calls) >= 2
    /\ Len(CallIds(calls[1].cmd)) = 2

\* C10: a rejected non-dry run leaves the document as it was
C10_RejectedRunChangesNothing ==
    (~options.dry_run /\ Rejected) => document = orig
====
